---- MODULE Spec2Model ----
\* Room extraction from floor-plan rasters: the two pipeline variants of
\*   server/src/scripts/enhancedRoomDetection.py  (wall reconstruction, "enhanced")
\*   server/src/scripts/roomDetection.py          (seed-anchored flood fill, "seed")
\*
\* Units.  cv2.contourArea of an integer-coordinate contour is a multiple of
\* 0.5, so every area is held as an integer count of HALF pixels (area 1.5 is
\* 3).  total_area = height * width stays in whole pixels.  An aspect ratio
\* float(w) / h is held as the exact fraction <<w, h>> and compared by
\* cross-multiplication; a decimal literal of the source such as 0.75 is
\* written as hundredths.
EXTENDS Integers, Sequences, FiniteSets, TLC

VARIABLES
    variant,          \* which script runs: "enhanced" or "seed"
    width,            \* image width  (original.shape[1])
    height,           \* image height (original.shape[0])
    loadable,         \* whether load_image can read and decode the file
    contours,         \* what the Region Locator yields, in order
    pc,               \* position of the run inside process_floor_plan / process_floorplan
    i,                \* index of the next text region (seed variant loop)
    rooms,            \* room_polygons / rooms: the room dicts built so far
    filtered_rooms,   \* the deduplicated list, as references into rooms
    result,           \* the record written to the JSON file, or None
    arg_area,         \* classify_room_type argument: area (half pixels)
    arg_aspect_ratio, \* classify_room_type argument: aspect_ratio
    arg_total_area,   \* classify_room_type argument: total_area
    room_type,        \* classify_room_type return value, or None
    located,          \* how many contours / text regions region location has finished for
    binary,           \* get_room_contour: the thresholded image, binary[sy][sx]
    text_region,      \* get_room_contour: the (x, y, w, h) box of the text
    seed_point,       \* get_room_contour: the seed of the flood fill, or None
    flood_image,      \* get_room_contour: the copy of binary the flood fill writes
    source_dir,       \* batch: whether the source directory exists, and its os.listdir
    floor_plans,      \* batch: the list the for loop runs over
    file_index,       \* batch: position of the for loop in floor_plans
    outcomes,         \* batch: per call of the pipeline, the file and how it ended
    script,           \* preprocessing: which script's landscape step runs
    loaded_image,     \* preprocessing: the image as cv2.imread returned it
    image,            \* preprocessing: the image the landscape step was last assigned to
    landscape_calls,  \* preprocessing: how many times the landscape step has run
    floor_name,       \* floor type: Path(image_path).stem, as its words
    floor_type        \* floor type: the floor attached to the record, or NoType

\* the locals of get_room_contour
locator_vars == <<binary, text_region, seed_point, flood_image>>

\* the locals of process_all_floor_plans / process_all_floorplans
batch_vars == <<source_dir, floor_plans, file_index, outcomes>>

\* the landscape step of the preprocessing scripts
landscape_vars == <<script, loaded_image, image, landscape_calls>>

\* the floor type inference at the head of process_floor_plan / process_floorplan
floor_vars == <<floor_name, floor_type>>

vars == <<variant, width, height, loadable, contours, pc, i, rooms,
          filtered_rooms, result, arg_area, arg_aspect_ratio, arg_total_area,
          room_type, located, locator_vars, batch_vars, landscape_vars, floor_vars>>

\* Python's None where a contour or a record is expected
None == [none |-> TRUE]

\* no label returned yet
NoType == "None"

Variants == {"enhanced", "seed"}

\* ---------------------------------------------------------------- bounds

\* most contours / text regions the Region Locator yields for one image
MaxContours == 2

\* longest room list handed to the Overlap Resolver on its own
MaxRooms == 3

\* most wall (dark) pixels of an image handed to get_room_contour on its own
MaxWallPixels == 2

\* most entries of the source directory of a batch
MaxFiles == 2

\* most applications of the landscape step to one image
MaxPasses == 2

\* most words in the stem of an image file name
MaxWords == 2

\* ---------------------------------------------------------------- arithmetic

Min(a, b) == IF a < b THEN a ELSE b

Max(a, b) == IF a > b THEN a ELSE b

\* faulty variant: the quotient taken the other way round, float(h) / w
AspectRatio_inverted(w, h) == IF h > 0 THEN <<h, w>> ELSE <<0, 1>>

\* float(w) / h if h > 0 else 0
AspectRatio(w, h) == IF h > 0 THEN <<w, h>> ELSE <<0, 1>>

\* lo/100 < aspect_ratio
AspectAbove(aspect_ratio, lo) == lo * aspect_ratio[2] < 100 * aspect_ratio[1]

\* aspect_ratio < hi/100
AspectBelow(aspect_ratio, hi) == 100 * aspect_ratio[1] < hi * aspect_ratio[2]

\* area / total_area > pct/100, area in half pixels
RelAreaAbove(area, total_area, pct) == 100 * area > 2 * pct * total_area

\* int(area): truncation of a non-negative float to whole pixels
IntArea(area) == 2 * (area \div 2)

\* ---------------------------------------------------------------- Room Classifier

\* faulty variant: the "corridor" entry holds the label "corridor"
ROOM_TYPES_corridor_label ==
    [large_square |-> "office", large_rectangle |-> "classroom",
     medium_square |-> "conference", small_square |-> "storage",
     small_rectangle |-> "restroom", corridor |-> "corridor",
     entrance |-> "reception", tiny |-> "utility"]

\* ROOM_TYPES of enhancedRoomDetection.py
ROOM_TYPES ==
    [large_square |-> "office", large_rectangle |-> "classroom",
     medium_square |-> "conference", small_square |-> "storage",
     small_rectangle |-> "restroom", corridor |-> "hallway",
     entrance |-> "reception", tiny |-> "utility"]

\* the labels either classifier can return
EnhancedLabels ==
    {"office", "classroom", "conference", "hallway", "storage", "restroom", "utility"}

SeedLabels ==
    {"hallway", "hall", "conference", "classroom", "office", "laboratory",
     "storage", "corridor", "utility"}

\* faulty variant: the 1.3 of the other script as the upper bound
enhanced_is_square_13(aspect_ratio) ==
    AspectAbove(aspect_ratio, 75) /\ AspectBelow(aspect_ratio, 130)

\* enhancedRoomDetection.py: 0.75 < aspect_ratio < 1.5
enhanced_is_square(aspect_ratio) ==
    AspectAbove(aspect_ratio, 75) /\ AspectBelow(aspect_ratio, 150)

\* faulty variant: the large band entered with >= 0.15 instead of > 0.15
enhanced_area_band_ge(area, total_area) ==
    IF 100 * area >= 2 * 15 * total_area THEN "large"
    ELSE IF RelAreaAbove(area, total_area, 5) THEN "medium"
    ELSE IF RelAreaAbove(area, total_area, 1) THEN "small"
    ELSE "tiny"

\* enhancedRoomDetection.py: the if / elif chain on rel_area
enhanced_area_band(area, total_area) ==
    IF RelAreaAbove(area, total_area, 15) THEN "large"
    ELSE IF RelAreaAbove(area, total_area, 5) THEN "medium"
    ELSE IF RelAreaAbove(area, total_area, 1) THEN "small"
    ELSE "tiny"

\* enhancedRoomDetection.py classify_room_type
enhanced_classify_room_type(area, aspect_ratio, total_area) ==
    LET band == enhanced_area_band(area, total_area) IN
    IF band = "large" THEN
        IF enhanced_is_square(aspect_ratio) THEN ROOM_TYPES["large_square"]
        ELSE ROOM_TYPES["large_rectangle"]
    ELSE IF band = "medium" THEN
        IF enhanced_is_square(aspect_ratio) THEN ROOM_TYPES["medium_square"]
        ELSE IF AspectAbove(aspect_ratio, 300) THEN ROOM_TYPES["corridor"]
        ELSE ROOM_TYPES["large_rectangle"]
    ELSE IF band = "small" THEN
        IF enhanced_is_square(aspect_ratio) THEN ROOM_TYPES["small_square"]
        ELSE ROOM_TYPES["small_rectangle"]
    ELSE
        IF AspectAbove(aspect_ratio, 300) THEN ROOM_TYPES["corridor"]
        ELSE ROOM_TYPES["tiny"]

\* faulty variant: 0.8 typed for the lower bound 0.7
seed_is_square_narrow(aspect_ratio) ==
    AspectAbove(aspect_ratio, 80) /\ AspectBelow(aspect_ratio, 130)

\* roomDetection.py: 0.7 < aspect_ratio < 1.3
seed_is_square(aspect_ratio) ==
    AspectAbove(aspect_ratio, 70) /\ AspectBelow(aspect_ratio, 130)

\* roomDetection.py: the chain of if statements on area_ratio
seed_area_band(area, total_area) ==
    IF RelAreaAbove(area, total_area, 25) THEN "very_large"
    ELSE IF RelAreaAbove(area, total_area, 15) THEN "large"
    ELSE IF RelAreaAbove(area, total_area, 5) THEN "medium"
    ELSE IF RelAreaAbove(area, total_area, 2) THEN "small"
    ELSE "very_small"

\* faulty variant: the very large band never yields "hallway"
seed_very_large_never_hallway(aspect_ratio) == FALSE

\* roomDetection.py: the "hallway" test of a very large room, aspect_ratio > 3.0
seed_very_large_is_hallway(aspect_ratio) == AspectAbove(aspect_ratio, 300)

\* roomDetection.py classify_room_type
classify_room_type(area, aspect_ratio, total_area) ==
    LET band == seed_area_band(area, total_area) IN
    IF band = "very_large" THEN
        IF seed_very_large_is_hallway(aspect_ratio) THEN "hallway" ELSE "hall"
    ELSE IF band = "large" THEN
        IF seed_is_square(aspect_ratio) THEN "conference"
        ELSE IF AspectAbove(aspect_ratio, 200) THEN "hallway"
        ELSE "classroom"
    ELSE IF band = "medium" THEN
        IF seed_is_square(aspect_ratio) THEN "office"
        ELSE IF AspectAbove(aspect_ratio, 300) THEN "hallway"
        ELSE "laboratory"
    ELSE IF band = "small" THEN
        IF seed_is_square(aspect_ratio) THEN "storage"
        ELSE IF AspectAbove(aspect_ratio, 250) THEN "corridor"
        ELSE "office"
    ELSE
        IF seed_is_square(aspect_ratio) THEN "utility"
        ELSE IF AspectAbove(aspect_ratio, 300) THEN "corridor"
        ELSE "storage"

\* the classifier of the running script
Classify(v, area, aspect_ratio, total_area) ==
    IF v = "enhanced" THEN enhanced_classify_room_type(area, aspect_ratio, total_area)
    ELSE classify_room_type(area, aspect_ratio, total_area)

\* ---------------------------------------------------------------- Polygon Builder

\* A raw contour as the pipeline reads it: cv2.boundingRect (x, y, w, h) and
\* cv2.contourArea (area, half pixels).
Contour(x, y, w, h, area) == [x |-> x, y |-> y, w |-> w, h |-> h, area |-> area]

\* min_area < area, with min_area = total_area * 0.003
AboveMinArea(area, total_area) == 1000 * area > 2 * 3 * total_area

\* area < max_area, with max_area = total_area * tenths / 10
BelowMaxArea(area, total_area, tenths) == 10 * area < 2 * tenths * total_area

\* enhancedRoomDetection.py: min_area < area < max_area, max_area 50% of the image
enhanced_area_ok(area, total_area) ==
    AboveMinArea(area, total_area) /\ BelowMaxArea(area, total_area, 5)

\* enhancedRoomDetection.py: 0.2 < aspect_ratio < 5.0
enhanced_aspect_ok(aspect_ratio) ==
    AspectAbove(aspect_ratio, 20) /\ AspectBelow(aspect_ratio, 500)

\* roomDetection.py: min_area < area < max_area, max_area 60% of the image
seed_area_ok(area, total_area) ==
    AboveMinArea(area, total_area) /\ BelowMaxArea(area, total_area, 6)

\* roomDetection.py: 0.1 < aspect_ratio < 10
seed_aspect_ok(aspect_ratio) ==
    AspectAbove(aspect_ratio, 10) /\ AspectBelow(aspect_ratio, 1000)

\* the room dict find_room_polygons appends for contour number k
enhanced_polygon(c, k) ==
    [contour |-> k, x |-> c.x, y |-> c.y, width |-> c.w, height |-> c.h,
     area |-> c.area, aspect_ratio |-> AspectRatio(c.w, c.h)]

RECURSIVE find_room_polygons_from(_, _, _, _)
\* the loop of find_room_polygons over contours k, k+1, ...
find_room_polygons_from(cs, k, total_area, room_polygons) ==
    IF k > Len(cs) THEN room_polygons
    ELSE LET c == cs[k]
             keep == /\ enhanced_area_ok(c.area, total_area)
                     /\ enhanced_aspect_ok(AspectRatio(c.w, c.h))
         IN find_room_polygons_from(cs, k + 1, total_area,
                IF keep THEN Append(room_polygons, enhanced_polygon(c, k))
                ELSE room_polygons)

\* enhancedRoomDetection.py find_room_polygons, from the extracted contours on
find_room_polygons(cs, h, w) == find_room_polygons_from(cs, 1, h * w, <<>>)

\* str.capitalize() on the labels of ROOM_TYPES
Capitalize(label) ==
    CASE label = "office" -> "Office"
      [] label = "classroom" -> "Classroom"
      [] label = "conference" -> "Conference"
      [] label = "storage" -> "Storage"
      [] label = "restroom" -> "Restroom"
      [] label = "hallway" -> "Hallway"
      [] label = "reception" -> "Reception"
      [] label = "utility" -> "Utility"

\* the values str(uuid.uuid4())[:8] and uuid.uuid4().hex[:4] are drawn from
Uuid4 == {"0a", "1b"}

\* process_floor_plan step 8: the four keys added to one room dict
enhanced_annotate(room, total_area, u_id, u_name) ==
    LET type == enhanced_classify_room_type(room.area, room.aspect_ratio, total_area) IN
    [contour |-> room.contour, x |-> room.x, y |-> room.y, width |-> room.width,
     height |-> room.height, area |-> room.area, aspect_ratio |-> room.aspect_ratio,
     type |-> type, id |-> <<"room-", u_id>>,
     name |-> <<"Room", Capitalize(type), u_name>>, confidence |-> 85]

\* process_floorplan: whether the contour of one text region becomes a room
seed_keep(c, total_area) ==
    /\ seed_area_ok(c.area, total_area)
    /\ seed_aspect_ok(AspectRatio(c.w, c.h))

\* faulty variant: the room is numbered by its text region, f"Room {i + 1}"
seed_room_numbered_by_region(c, k, total_area, n_rooms, u_id) ==
    [id |-> <<"room-", u_id>>, name |-> <<"Room", k>>,
     type |-> classify_room_type(c.area, AspectRatio(c.w, c.h), total_area),
     x |-> c.x, y |-> c.y, width |-> c.w, height |-> c.h,
     area |-> IntArea(c.area), aspect_ratio |-> AspectRatio(c.w, c.h),
     confidence |-> 85, contour |-> k]

\* process_floorplan: the room dict appended for text region k
seed_room(c, k, total_area, n_rooms, u_id) ==
    [id |-> <<"room-", u_id>>, name |-> <<"Room", n_rooms + 1>>,
     type |-> classify_room_type(c.area, AspectRatio(c.w, c.h), total_area),
     x |-> c.x, y |-> c.y, width |-> c.w, height |-> c.h,
     area |-> IntArea(c.area), aspect_ratio |-> AspectRatio(c.w, c.h),
     confidence |-> 85, contour |-> k]

\* ---------------------------------------------------------------- Overlap Resolver

\* faulty variant: max(0, ...) typed as min(0, ...)
overlap_area_min0(room, existing) ==
    LET x_overlap == Min(0, Min(room.x + room.width, existing.x + existing.width)
                            - Max(room.x, existing.x))
        y_overlap == Min(0, Min(room.y + room.height, existing.y + existing.height)
                            - Max(room.y, existing.y))
    IN x_overlap * y_overlap

\* the intersection area of the two bounding boxes (whole pixels)
overlap_area(room, existing) ==
    LET x_overlap == Max(0, Min(room.x + room.width, existing.x + existing.width)
                            - Max(room.x, existing.x))
        y_overlap == Max(0, Min(room.y + room.height, existing.y + existing.height)
                            - Max(room.y, existing.y))
    IN x_overlap * y_overlap

\* overlap_area > tenths/10 * min(room['area'], existing['area'])
SignificantOverlap(room, existing, tenths) ==
    10 * 2 * overlap_area(room, existing) > tenths * Min(room.area, existing.area)

\* faulty variant: the 0.7 of the other script
enhanced_significant_07(room, existing) == SignificantOverlap(room, existing, 7)

\* enhancedRoomDetection.py: overlap_area > 0.6 * min(...)
enhanced_significant(room, existing) == SignificantOverlap(room, existing, 6)

RECURSIVE Pow2Floor(_)
\* the largest power of two that is at most k, for k >= 1
Pow2Floor(k) == IF k < 2 THEN 1 ELSE 2 * Pow2Floor(k \div 2)

\* Whether the double product 0.7 * m is below the integer k = 7m/10 it stands
\* for.  The double 0.7 is 0.7 - (4/5) * 2^-54, so the exact product is
\* k - (8k/7) * 2^-54, which rounds to a double below k exactly when it lies
\* more than half an ulp of k under k: k > 1.75 * 2^floor(log2 k).  (The double
\* 0.6 is close enough to 0.6 for 0.6 * m to round to k every time.)
SevenTenthsRoundsDown(k) == k >= 1 /\ 4 * k > 7 * Pow2Floor(k)

\* roomDetection.py: overlap_area > 0.7 * min(...), the product a double
seed_significant(room, existing) ==
    \/ SignificantOverlap(room, existing, 7)
    \/ /\ 10 * 2 * overlap_area(room, existing) = 7 * Min(room.area, existing.area)
       /\ SevenTenthsRoundsDown(overlap_area(room, existing))

RECURSIVE InsertByArea(_, _, _)
\* one step of the stable sort: r goes after every reference of area >= its own
InsertByArea(sorted, r, rs) ==
    IF sorted = <<>> THEN <<r>>
    ELSE IF rs[Head(sorted)].area >= rs[r].area
         THEN <<Head(sorted)>> \o InsertByArea(Tail(sorted), r, rs)
         ELSE <<r>> \o sorted

RECURSIVE SortedFrom(_, _, _)
SortedFrom(rs, k, sorted) ==
    IF k > Len(rs) THEN sorted
    ELSE SortedFrom(rs, k + 1, InsertByArea(sorted, k, rs))

\* faulty variant: reverse=True is forgotten, smaller area first
sorted_rooms_ascending(rs) ==
    LET s == SortedFrom(rs, 1, <<>>) IN [k \in 1..Len(s) |-> s[Len(s) + 1 - k]]

\* faulty variant: an unstable sort, rooms of equal area in reverse input order
sorted_rooms_unstable(rs) ==
    LET n == Len(rs)
        s == SortedFrom([k \in 1..n |-> rs[n + 1 - k]], 1, <<>>)
    IN [k \in 1..n |-> n + 1 - s[k]]

\* faulty variant: the sort is left out, the rooms stay in their input order
sorted_rooms_input_order(rs) == [k \in 1..Len(rs) |-> k]

\* sorted(rooms, key=lambda r: r['area'], reverse=True): references into rs,
\* larger area first, rooms of equal area in their order in rs (the sort is stable)
sorted_rooms(rs) == SortedFrom(rs, 1, <<>>)

RECURSIVE enhanced_filter(_, _, _)
\* the for loop of remove_overlapping_rooms
enhanced_filter(todo, filtered, rs) ==
    IF todo = <<>> THEN filtered
    ELSE LET room == Head(todo)
             should_add == \A k \in 1..Len(filtered) :
                               ~enhanced_significant(rs[room], rs[filtered[k]])
         IN enhanced_filter(Tail(todo),
                IF should_add THEN Append(filtered, room) ELSE filtered, rs)

\* enhancedRoomDetection.py remove_overlapping_rooms
remove_overlapping_rooms(rs) ==
    IF rs = <<>> THEN <<>> ELSE enhanced_filter(sorted_rooms(rs), <<>>, rs)

RECURSIVE seed_filter(_, _, _)
\* the for loop of process_floorplan that removes overlapping rooms
seed_filter(todo, filtered, rs) ==
    IF todo = <<>> THEN filtered
    ELSE LET room == Head(todo)
             should_add == \A k \in 1..Len(filtered) :
                               ~seed_significant(rs[room], rs[filtered[k]])
         IN seed_filter(Tail(todo),
                IF should_add THEN Append(filtered, room) ELSE filtered, rs)

\* roomDetection.py: the deduplication block of process_floorplan
seed_remove_overlapping(rs) == seed_filter(sorted_rooms(rs), <<>>, rs)

\* faulty variant: the room dict is dumped as it is, contour included
room_dict_with_contour(room) == room

\* the external form of one room: every key but 'contour'
room_dict(room) == [k \in (DOMAIN room) \ {"contour"} |-> room[k]]

\* rooms_json: the external form of the deduplicated rooms
rooms_json(refs, rs) == [k \in 1..Len(refs) |-> room_dict(rs[refs[k]])]

\* ---------------------------------------------------------------- inputs

\* <<width, height>> of the images a run may load
Images == {<<400, 300>>, <<1024, 768>>}

\* What the Region Locator can yield on an image: bounding rectangle and
\* contour area (half pixels), the area never above the rectangle's.
ContoursOf(w, h) ==
    IF <<w, h>> = <<400, 300>> THEN
        {Contour(100, 75, 200, 150, 60000),
         Contour(180, 75, 200, 150, 56000),
         Contour(100, 75, 200, 150, 56000),
         Contour(50, 50, 300, 200, 120000),
         Contour(0, 0, 40, 200, 10000),
         Contour(0, 0, 200, 40, 10000),
         Contour(0, 0, 20, 200, 6000),
         Contour(0, 0, 200, 20, 6000),
         Contour(0, 0, 30, 20, 720),
         Contour(0, 0, 30, 20, 721),
         Contour(0, 0, 0, 0, 0)}
    ELSE
        {Contour(10, 10, 60, 50, 4719),
         Contour(10, 10, 60, 50, 4718)}

\* all sequences over S of length at most n
SeqsUpTo(S, n) == UNION {[1..m -> S] : m \in 0..n}

\* the per-image results of the Region Locator: the external contours in the
\* enhanced script; one get_room_contour result per text region, which may be
\* None, in the seed script
LocatorResults(v, w, h) ==
    IF v = "enhanced" THEN SeqsUpTo(ContoursOf(w, h), MaxContours)
    ELSE SeqsUpTo(ContoursOf(w, h) \cup {None}, MaxContours)

\* ---------------------------------------------------------------- one pipeline run

\* get_room_contour is not being stepped through
NoLocatorCall ==
    /\ binary = <<>>
    /\ text_region = None
    /\ seed_point = None
    /\ flood_image = <<>>

\* no preprocessing script is running
NoLandscape ==
    /\ script = "None"
    /\ loaded_image = None
    /\ image = None
    /\ landscape_calls = 0

\* no floor type is being inferred
NoFloorName ==
    /\ floor_name = <<>>
    /\ floor_type = NoType

\* no batch loop is running
NoBatch ==
    /\ source_dir = [exists |-> FALSE, entries |-> <<>>]
    /\ floor_plans = <<>>
    /\ file_index = 1
    /\ outcomes = <<>>

Init ==
    /\ variant \in Variants
    /\ \E im \in Images : width = im[1] /\ height = im[2]
    /\ loadable \in BOOLEAN
    /\ contours = <<>>
    /\ pc = "start"
    /\ i = 1
    /\ rooms = <<>>
    /\ filtered_rooms = <<>>
    /\ result = None
    /\ arg_area = 0
    /\ arg_aspect_ratio = <<0, 1>>
    /\ arg_total_area = 1
    /\ room_type = NoType
    /\ located = 0
    /\ NoLocatorCall
    /\ NoLandscape
    /\ NoFloorName
    /\ NoBatch

\* load_image: raises when the file is missing or cannot be decoded
LoadImage ==
    /\ pc = "start"
    /\ pc' = IF loadable THEN "loaded" ELSE "failed"
    /\ UNCHANGED <<located, locator_vars, batch_vars, landscape_vars, floor_vars>>
    /\ UNCHANGED <<variant, width, height, loadable, contours, i, rooms,
                   filtered_rooms, result, arg_area, arg_aspect_ratio,
                   arg_total_area, room_type>>

\* Region Locator.  enhanced: steps 2-6 and the contour extraction of
\* find_room_polygons, which locates every contour.  seed: detect_text_regions
\* finds the text regions; contours[k] is what get_room_contour is going to
\* return for region k once the loop of process_floorplan calls it.
Locate ==
    /\ pc = "loaded"
    /\ \E cs \in LocatorResults(variant, width, height) :
           /\ contours' = cs
           /\ pc' = IF variant = "enhanced" THEN "polygons"
                    ELSE IF Len(cs) = 0 THEN "dedup" ELSE "regions"
           /\ located' = IF variant = "enhanced" THEN Len(cs) ELSE 0
    /\ i' = 1
    /\ UNCHANGED <<locator_vars, batch_vars, landscape_vars, floor_vars>>
    /\ UNCHANGED <<variant, width, height, loadable, rooms, filtered_rooms,
                   result, arg_area, arg_aspect_ratio, arg_total_area, room_type>>

\* enhanced: the filter loop of find_room_polygons
FindRoomPolygons ==
    /\ pc = "polygons"
    /\ rooms' = find_room_polygons(contours, height, width)
    /\ pc' = "classify"
    /\ UNCHANGED <<located, locator_vars, batch_vars, landscape_vars, floor_vars>>
    /\ UNCHANGED <<variant, width, height, loadable, contours, i,
                   filtered_rooms, result, arg_area, arg_aspect_ratio,
                   arg_total_area, room_type>>

\* enhanced: step 8, every room dict gets type, id, name and confidence
ClassifyRooms ==
    /\ pc = "classify"
    /\ \E u_id \in [1..Len(rooms) -> Uuid4], u_name \in [1..Len(rooms) -> Uuid4] :
           rooms' = [k \in 1..Len(rooms) |->
                        enhanced_annotate(rooms[k], height * width, u_id[k], u_name[k])]
    /\ pc' = "dedup"
    /\ UNCHANGED <<located, locator_vars, batch_vars, landscape_vars, floor_vars>>
    /\ UNCHANGED <<variant, width, height, loadable, contours, i,
                   filtered_rooms, result, arg_area, arg_aspect_ratio,
                   arg_total_area, room_type>>

\* faulty variant: a break at the end of the loop body, only the first text
\* region is handled
ProcessRegion_breaks_after_first ==
    /\ pc = "regions"
    /\ i <= Len(contours)
    /\ located' = i
    /\ LET c == contours[i] IN
           IF c # None /\ seed_keep(c, height * width)
           THEN \E u_id \in Uuid4 :
                    rooms' = Append(rooms,
                                 seed_room(c, i, height * width, Len(rooms), u_id))
           ELSE rooms' = rooms
    /\ i' = i + 1
    /\ pc' = "dedup"
    /\ UNCHANGED <<locator_vars, batch_vars, landscape_vars, floor_vars>>
    /\ UNCHANGED <<variant, width, height, loadable, contours,
                   filtered_rooms, result, arg_area, arg_aspect_ratio,
                   arg_total_area, room_type>>

\* seed: one iteration of the loop over text_regions: get_room_contour for
\* region i, then the filter, the classification and the append
ProcessRegion ==
    /\ pc = "regions"
    /\ i <= Len(contours)
    /\ located' = i
    /\ LET c == contours[i] IN
           IF c # None /\ seed_keep(c, height * width)
           THEN \E u_id \in Uuid4 :
                    rooms' = Append(rooms,
                                 seed_room(c, i, height * width, Len(rooms), u_id))
           ELSE rooms' = rooms
    /\ i' = i + 1
    /\ pc' = IF i = Len(contours) THEN "dedup" ELSE "regions"
    /\ UNCHANGED <<locator_vars, batch_vars, landscape_vars, floor_vars>>
    /\ UNCHANGED <<variant, width, height, loadable, contours,
                   filtered_rooms, result, arg_area, arg_aspect_ratio,
                   arg_total_area, room_type>>

\* faulty variant: rooms.sort(...) in place of sorted(rooms, ...)
RemoveOverlaps_sorts_in_place ==
    /\ pc = "dedup"
    /\ rooms' = [k \in 1..Len(rooms) |-> rooms[sorted_rooms(rooms)[k]]]
    /\ filtered_rooms' = IF variant = "enhanced" THEN remove_overlapping_rooms(rooms')
                         ELSE seed_remove_overlapping(rooms')
    /\ pc' = "save"
    /\ UNCHANGED <<located, locator_vars, batch_vars, landscape_vars, floor_vars>>
    /\ UNCHANGED <<variant, width, height, loadable, contours, i,
                   result, arg_area, arg_aspect_ratio, arg_total_area, room_type>>

\* Overlap Resolver: remove_overlapping_rooms, or the loop of process_floorplan.
\* At "save" the outputs are due: the visualization first in the enhanced
\* script, the JSON file first in the seed script.
RemoveOverlaps ==
    /\ pc = "dedup"
    /\ filtered_rooms' = IF variant = "enhanced" THEN remove_overlapping_rooms(rooms)
                         ELSE seed_remove_overlapping(rooms)
    /\ pc' = "save"
    /\ UNCHANGED <<located, locator_vars, batch_vars, landscape_vars, floor_vars>>
    /\ UNCHANGED <<variant, width, height, loadable, contours, i, rooms,
                   result, arg_area, arg_aspect_ratio, arg_total_area, room_type>>

\* faulty variant: a visualization without rooms raises
CreateVisualization_raises_when_empty ==
    /\ pc = (IF variant = "enhanced" THEN "save" ELSE "visualize")
    /\ pc' = (IF filtered_rooms = <<>> THEN "failed"
              ELSE IF variant = "enhanced" THEN "json" ELSE "done")
    /\ UNCHANGED <<located, locator_vars, batch_vars, landscape_vars, floor_vars>>
    /\ UNCHANGED <<variant, width, height, loadable, contours, i, rooms,
                   filtered_rooms, result, arg_area, arg_aspect_ratio,
                   arg_total_area, room_type>>

\* create_visualization and cv2.imwrite (enhanced, before the JSON file is
\* written); create_room_visualization, the overlay and their two cv2.imwrite
\* (seed, after the JSON file is written)
CreateVisualization ==
    /\ pc = (IF variant = "enhanced" THEN "save" ELSE "visualize")
    /\ pc' = (IF variant = "enhanced" THEN "json" ELSE "done")
    /\ UNCHANGED <<located, locator_vars, batch_vars, landscape_vars, floor_vars>>
    /\ UNCHANGED <<variant, width, height, loadable, contours, i, rooms,
                   filtered_rooms, result, arg_area, arg_aspect_ratio,
                   arg_total_area, room_type>>

\* faulty variant: a run without rooms raises instead of writing its record
SaveResults_raises_when_empty ==
    /\ pc = (IF variant = "enhanced" THEN "json" ELSE "save")
    /\ IF filtered_rooms = <<>>
       THEN pc' = "failed" /\ result' = result
       ELSE /\ result' = [width |-> width, height |-> height,
                          rooms |-> rooms_json(filtered_rooms, rooms),
                          processingComplete |-> TRUE]
            /\ pc' = (IF variant = "enhanced" THEN "done" ELSE "visualize")
    /\ UNCHANGED <<located, locator_vars, batch_vars, landscape_vars, floor_vars>>
    /\ UNCHANGED <<variant, width, height, loadable, contours, i, rooms,
                   filtered_rooms, arg_area, arg_aspect_ratio, arg_total_area,
                   room_type>>

\* the record dumped to the JSON file
SaveResults ==
    /\ pc = (IF variant = "enhanced" THEN "json" ELSE "save")
    /\ result' = IF variant = "enhanced"
                 THEN [width |-> width, height |-> height,
                       rooms |-> rooms_json(filtered_rooms, rooms),
                       processingComplete |-> TRUE, enhancedDetection |-> TRUE]
                 ELSE [width |-> width, height |-> height,
                       rooms |-> rooms_json(filtered_rooms, rooms),
                       processingComplete |-> TRUE]
    /\ pc' = (IF variant = "enhanced" THEN "done" ELSE "visualize")
    /\ UNCHANGED <<located, locator_vars, batch_vars, landscape_vars, floor_vars>>
    /\ UNCHANGED <<variant, width, height, loadable, contours, i, rooms,
                   filtered_rooms, arg_area, arg_aspect_ratio, arg_total_area,
                   room_type>>

Next ==
    \/ LoadImage
    \/ Locate
    \/ FindRoomPolygons
    \/ ClassifyRooms
    \/ ProcessRegion
    \/ RemoveOverlaps
    \/ CreateVisualization
    \/ SaveResults

Spec == Init /\ [][Next]_vars

\* A stage after load_image raises (cv2.error, OSError, MemoryError, ...).
\* Neither process_floor_plan nor process_floorplan has a try statement, so the
\* exception leaves the function at once and the run ends in Failed.
Raise ==
    /\ pc \in {"loaded", "polygons", "classify", "regions", "dedup", "save",
               "json", "visualize"}
    /\ pc' = "failed"
    /\ UNCHANGED <<located, locator_vars, batch_vars, landscape_vars, floor_vars>>
    /\ UNCHANGED <<variant, width, height, loadable, contours, i, rooms,
                   filtered_rooms, result, arg_area, arg_aspect_ratio,
                   arg_total_area, room_type>>

NextRaise ==
    \/ LoadImage
    \/ Locate
    \/ FindRoomPolygons
    \/ ClassifyRooms
    \/ ProcessRegion
    \/ RemoveOverlaps
    \/ CreateVisualization
    \/ SaveResults
    \/ Raise

\* one pipeline run in which any stage may raise
SpecRaise == Init /\ [][NextRaise]_vars

\* ---------------------------------------------------------------- the resolver alone

\* bounding rectangles and areas of the rooms handed to the resolver
ResolverContours ==
    {Contour(x, 0, 200, 150, a) : x \in {0, 80, 95, 160}, a \in {60000, 56000, 45000}}
        \cup {Contour(0, 100, 200, 150, 45000)}

\* a room dict as either script builds it, on a 400 x 300 image
ResolverRoom(v, c) ==
    IF v = "enhanced"
    THEN enhanced_annotate(enhanced_polygon(c, 0), 120000, "0a", "0a")
    ELSE seed_room(c, 0, 120000, 0, "0a")

InitResolve ==
    /\ variant \in Variants
    /\ width = 400
    /\ height = 300
    /\ loadable = TRUE
    /\ contours = <<>>
    /\ pc = "dedup"
    /\ i = 1
    /\ rooms \in SeqsUpTo({ResolverRoom(variant, c) : c \in ResolverContours}, MaxRooms)
    /\ filtered_rooms = <<>>
    /\ result = None
    /\ arg_area = 0
    /\ arg_aspect_ratio = <<0, 1>>
    /\ arg_total_area = 1
    /\ room_type = NoType
    /\ located = 0
    /\ NoLocatorCall
    /\ NoLandscape
    /\ NoFloorName
    /\ NoBatch

SpecResolve == InitResolve /\ [][RemoveOverlaps]_vars

\* ---------------------------------------------------------------- the classifier alone

\* areas (half pixels) tried against total_area 100: relative areas 0 to 0.3
\* in steps of 0.005, and 0.5 and 1
ClassifyAreas == 0..60 \cup {100, 200}

\* aspect ratios tried: 0 to 3.5 in steps of 0.05, and 10
ClassifyAspects == {<<n, 20>> : n \in 0..70} \cup {<<10, 1>>}

InitClassify ==
    /\ variant \in Variants
    /\ width = 10
    /\ height = 10
    /\ loadable = TRUE
    /\ contours = <<>>
    /\ pc = "call"
    /\ i = 1
    /\ rooms = <<>>
    /\ filtered_rooms = <<>>
    /\ result = None
    /\ arg_area \in ClassifyAreas
    /\ arg_aspect_ratio \in ClassifyAspects
    /\ arg_total_area = 100
    /\ room_type = NoType
    /\ located = 0
    /\ NoLocatorCall
    /\ NoLandscape
    /\ NoFloorName
    /\ NoBatch

\* one call of classify_room_type
ClassifyCall ==
    /\ pc = "call"
    /\ room_type' = Classify(variant, arg_area, arg_aspect_ratio, arg_total_area)
    /\ pc' = "returned"
    /\ UNCHANGED <<located, locator_vars, batch_vars, landscape_vars, floor_vars>>
    /\ UNCHANGED <<variant, width, height, loadable, contours, i, rooms,
                   filtered_rooms, result, arg_area, arg_aspect_ratio,
                   arg_total_area>>

SpecClassify == InitClassify /\ [][ClassifyCall]_vars

\* ---------------------------------------------------------------- get_room_contour alone

\* image.shape[:2] of the image handed to get_room_contour
LocatorWidth == 4

LocatorHeight == 3

\* the pixel coordinates <<sx, sy>> of a w x h image
Pixels(w, h) == (0 .. w - 1) \X (0 .. h - 1)

\* cv2.threshold(gray, 200, 255, cv2.THRESH_BINARY): a pixel is 255 (light)
\* or 0 (wall); img[<<sx, sy>>] stands for binary[sy, sx]
BinaryImages(w, h) ==
    {[p \in Pixels(w, h) |-> IF p \in dark THEN 0 ELSE 255] :
        dark \in {d \in SUBSET Pixels(w, h) : Cardinality(d) <= MaxWallPixels}}

\* the (x, y, w, h) boxes detect_text_regions can hand over: bounding
\* rectangles inside the image
TextRegions(w, h) ==
    {r \in [x : 0 .. w - 1, y : 0 .. h - 1, w : 1 .. w, h : 1 .. h] :
        r.x + r.w <= w /\ r.y + r.h <= h}

\* faulty variant: the corner (x, y) of the text box taken for its center
text_center_corner(region) == <<region.x, region.y>>

\* the center of the text box: (x + w // 2, y + h // 2)
text_center(region) == <<region.x + region.w \div 2, region.y + region.h \div 2>>

\* faulty variant: the probes left and right of the text are tried first
seed_points_horizontal_first(region) ==
    LET c == text_center(region) IN
    << <<c[1] - region.w, c[2]>>, <<c[1] + region.w, c[2]>>,
       <<c[1], c[2] - region.h>>, <<c[1], c[2] + region.h>> >>

\* seed_points: above, below, left of and right of the text
seed_points(region) ==
    LET c == text_center(region) IN
    << <<c[1], c[2] - region.h>>, <<c[1], c[2] + region.h>>,
       <<c[1] - region.w, c[2]>>, <<c[1] + region.w, c[2]>> >>

\* 0 <= sx < width and 0 <= sy < height and binary[sy, sx] == 255
seed_is_valid(img, w, h, pt) ==
    /\ 0 <= pt[1] /\ pt[1] < w
    /\ 0 <= pt[2] /\ pt[2] < h
    /\ img[pt] = 255

RECURSIVE first_valid_seed(_, _, _, _, _)
\* the for loop over seed_points with its break; None when it runs out
first_valid_seed(img, w, h, points, k) ==
    IF k > Len(points) THEN None
    ELSE IF seed_is_valid(img, w, h, points[k]) THEN points[k]
    ELSE first_valid_seed(img, w, h, points, k + 1)

\* step 2 of get_room_contour: the seed of the flood fill
select_seed_point(img, w, h, region) ==
    LET found == first_valid_seed(img, w, h, seed_points(region), 1) IN
    IF found = None THEN text_center(region) ELSE found

\* |a - b|
Dist(a, b) == IF a < b THEN b - a ELSE a - b

\* two pixels that share an edge (connectivity 4)
Neighbours4(pt, q) == Dist(pt[1], q[1]) + Dist(pt[2], q[2]) = 1

\* two distinct pixels that share an edge or a corner (connectivity 8)
Neighbours8(pt, q) == pt # q /\ Dist(pt[1], q[1]) <= 1 /\ Dist(pt[2], q[2]) <= 1

RECURSIVE FloodFrom(_, _, _, _)
\* the pixels cv2.floodFill reaches from the pixels reached so far: with zero loDiff
\* and upDiff and connectivity 4, every pixel joined to the seed by 4-neighbours
\* that all hold the seed's value
FloodFrom(img, w, h, reached) ==
    LET more == {q \in Pixels(w, h) :
                    /\ q \notin reached
                    /\ \E pt \in reached : Neighbours4(pt, q) /\ img[q] = img[pt]}
    IN IF more = {} THEN reached ELSE FloodFrom(img, w, h, reached \cup more)

\* cv2.floodFill(flood_image, mask, seed_point, 128) on a seed inside the image
floodFill(img, w, h, seed) ==
    LET filled == FloodFrom(img, w, h, {seed}) IN
    [pt \in Pixels(w, h) |-> IF pt \in filled THEN 128 ELSE img[pt]]

\* steps 4 and 5: cv2.inRange(flood_image, 128, 128), then the text box
\* (x, y) .. (x + w, y + h), both corners included, painted in
room_mask(flooded, w, h, region) ==
    {pt \in Pixels(w, h) :
        \/ flooded[pt] = 128
        \/ /\ region.x <= pt[1] /\ pt[1] <= region.x + region.w
           /\ region.y <= pt[2] /\ pt[2] <= region.y + region.h}

RECURSIVE ComponentOf(_, _)
\* the 8-connected component of a mask that holds the pixels in part
ComponentOf(mask, part) ==
    LET more == {q \in mask \ part : \E pt \in part : Neighbours8(pt, q)}
    IN IF more = {} THEN part ELSE ComponentOf(mask, part \cup more)

\* cv2.findContours(room_mask, RETR_EXTERNAL, ...): one outer contour per
\* 8-connected component, held as the component's pixels
findContours(mask) == {ComponentOf(mask, {pt}) : pt \in mask}

InitLocate ==
    /\ variant = "seed"
    /\ width = LocatorWidth
    /\ height = LocatorHeight
    /\ loadable = TRUE
    /\ contours = <<>>
    /\ pc = "seed"
    /\ i = 1
    /\ rooms = <<>>
    /\ filtered_rooms = <<>>
    /\ result = None
    /\ arg_area = 0
    /\ arg_aspect_ratio = <<0, 1>>
    /\ arg_total_area = 1
    /\ room_type = NoType
    /\ located = 0
    /\ binary \in BinaryImages(LocatorWidth, LocatorHeight)
    /\ text_region \in TextRegions(LocatorWidth, LocatorHeight)
    /\ seed_point = None
    /\ flood_image = binary
    /\ NoBatch
    /\ NoLandscape
    /\ NoFloorName

\* everything get_room_contour leaves alone
pipeline_vars == <<variant, width, height, loadable, i, rooms, filtered_rooms,
                   result, arg_area, arg_aspect_ratio, arg_total_area, room_type>>

\* step 2: the seed point
SelectSeed ==
    /\ pc = "seed"
    /\ seed_point' = select_seed_point(binary, width, height, text_region)
    /\ pc' = "flood"
    /\ UNCHANGED <<binary, text_region, flood_image, contours, located,
                   pipeline_vars, batch_vars, landscape_vars, floor_vars>>

\* step 3: the flood fill; cv2.floodFill raises on a seed outside the image
FloodFill ==
    /\ pc = "flood"
    /\ IF seed_point \in Pixels(width, height)
       THEN /\ flood_image' = floodFill(flood_image, width, height, seed_point)
            /\ pc' = "mask"
       ELSE /\ flood_image' = flood_image
            /\ pc' = "failed"
    /\ UNCHANGED <<binary, text_region, seed_point, contours, located,
                   pipeline_vars, batch_vars, landscape_vars, floor_vars>>

\* steps 4 to 6 and the return: None without a contour, else the contour of
\* largest cv2.contourArea, held as the pixels it encloses.  The area of a
\* contour is not computed here: any of the contours found may be the one
\* returned.
ReturnContour ==
    /\ pc = "mask"
    /\ LET found == findContours(room_mask(flood_image, width, height, text_region))
       IN IF found = {} THEN contours' = <<None>>
          ELSE \E c \in found : contours' = <<[pixels |-> c]>>
    /\ located' = 1
    /\ pc' = "returned"
    /\ UNCHANGED <<binary, text_region, seed_point, flood_image,
                   pipeline_vars, batch_vars, landscape_vars, floor_vars>>

NextLocate == SelectSeed \/ FloodFill \/ ReturnContour

SpecLocate == InitLocate /\ [][NextLocate]_vars

\* ---------------------------------------------------------------- batch processing

\* A directory entry: the file name as the words of its stem and its
\* extension, and whether load_image can read and decode the file.
File(stem, ext, readable) == [stem |-> stem, ext |-> ext, readable |-> readable]

\* the entries a source directory may hold
Files ==
    {File(<<"ground", "processed">>, ".jpg", TRUE),
     File(<<"mezzanine", "processed">>, ".jpeg", FALSE),
     File(<<"second", "processed">>, ".PNG", TRUE),
     File(<<"third">>, ".png", TRUE),
     File(<<"placeholder", "processed">>, ".jpg", TRUE),
     File(<<"notes">>, ".txt", TRUE)}

\* str.lower() on an extension
Lower(ext) ==
    CASE ext = ".JPG" -> ".jpg"
      [] ext = ".JPEG" -> ".jpeg"
      [] ext = ".PNG" -> ".png"
      [] OTHER -> ext

\* name.endswith(('.jpg', '.jpeg', '.png'))
EndsWithImageExt(ext) == ext \in {".jpg", ".jpeg", ".png"}

\* name.startswith('placeholder')
StartsWithPlaceholder(f) == f.stem[1] = "placeholder"

\* 'processed' in name
HasProcessed(f) == \E k \in 1 .. Len(f.stem) : f.stem[k] = "processed"

\* the filter of process_all_floor_plans
enhanced_selects(f) ==
    /\ EndsWithImageExt(Lower(f.ext))
    /\ ~StartsWithPlaceholder(f)
    /\ HasProcessed(f)

\* the filter of process_all_floorplans
seed_selects(f) == EndsWithImageExt(f.ext) /\ ~StartsWithPlaceholder(f)

\* the sequences without repetition over S of length at most n
ListsUpTo(S, n) ==
    {l \in SeqsUpTo(S, n) : \A a, b \in 1 .. Len(l) : a # b => l[a] # l[b]}

\* how process_floor_plan / process_floorplan can end on a file: load_image
\* raises on an unreadable one; on a readable one the run returns, unless a
\* later stage raises
RunOutcomes(f) == IF f.readable THEN {"Completed", "Failed"} ELSE {"Failed"}

InitBatch ==
    /\ variant \in Variants
    /\ width = 400
    /\ height = 300
    /\ loadable = TRUE
    /\ contours = <<>>
    /\ pc = "batch"
    /\ i = 1
    /\ rooms = <<>>
    /\ filtered_rooms = <<>>
    /\ result = None
    /\ arg_area = 0
    /\ arg_aspect_ratio = <<0, 1>>
    /\ arg_total_area = 1
    /\ room_type = NoType
    /\ located = 0
    /\ NoLocatorCall
    /\ NoLandscape
    /\ NoFloorName
    /\ source_dir \in {[exists |-> TRUE, entries |-> l] : l \in ListsUpTo(Files, MaxFiles)}
                      \cup {[exists |-> FALSE, entries |-> <<>>]}
    /\ floor_plans = <<>>
    /\ file_index = 1
    /\ outcomes = <<>>

\* everything the batch loop leaves alone
run_vars == <<variant, width, height, loadable, contours, i, rooms, filtered_rooms,
              result, arg_area, arg_aspect_ratio, arg_total_area, room_type,
              located, locator_vars>>

\* if not os.path.exists(SOURCE_DIR): return.  Otherwise the seed script
\* iterates over os.listdir itself.
CheckDirectory ==
    /\ pc = "batch"
    /\ IF ~source_dir.exists
       THEN pc' = "returned" /\ floor_plans' = floor_plans
       ELSE IF variant = "enhanced"
       THEN pc' = "list" /\ floor_plans' = floor_plans
       ELSE pc' = "loop" /\ floor_plans' = source_dir.entries
    /\ UNCHANGED <<source_dir, file_index, outcomes, run_vars, landscape_vars, floor_vars>>

\* enhanced: floor_plans = [f for f in os.listdir(SOURCE_DIR) if ...]
SelectFloorPlans ==
    /\ pc = "list"
    /\ floor_plans' = SelectSeq(source_dir.entries, enhanced_selects)
    /\ pc' = "loop"
    /\ UNCHANGED <<source_dir, file_index, outcomes, run_vars, landscape_vars, floor_vars>>

\* faulty variant: no try / except around the call, the first failure ends the batch
ProcessFile_aborts_on_failure ==
    /\ pc = "loop"
    /\ file_index <= Len(floor_plans)
    /\ LET f == floor_plans[file_index] IN
       IF variant = "seed" /\ ~seed_selects(f)
       THEN outcomes' = outcomes /\ pc' = pc
       ELSE \E o \in RunOutcomes(f) :
                /\ outcomes' = Append(outcomes, [file |-> f, outcome |-> o])
                /\ pc' = IF o = "Failed" THEN "returned" ELSE pc
    /\ file_index' = file_index + 1
    /\ UNCHANGED <<source_dir, floor_plans, run_vars, landscape_vars, floor_vars>>

\* one iteration of the for loop: the seed script tests its filter here; the
\* call of the pipeline sits in try / except Exception, which prints and goes on
ProcessFile ==
    /\ pc = "loop"
    /\ file_index <= Len(floor_plans)
    /\ LET f == floor_plans[file_index] IN
       IF variant = "seed" /\ ~seed_selects(f)
       THEN outcomes' = outcomes
       ELSE \E o \in RunOutcomes(f) :
                outcomes' = Append(outcomes, [file |-> f, outcome |-> o])
    /\ file_index' = file_index + 1
    /\ UNCHANGED <<pc, source_dir, floor_plans, run_vars, landscape_vars, floor_vars>>

\* the for loop is exhausted
BatchReturn ==
    /\ pc = "loop"
    /\ file_index > Len(floor_plans)
    /\ pc' = "returned"
    /\ UNCHANGED <<batch_vars, run_vars, landscape_vars, floor_vars>>

NextBatch == CheckDirectory \/ SelectFloorPlans \/ ProcessFile \/ BatchReturn

SpecBatch == InitBatch /\ [][NextBatch]_vars

\* ---------------------------------------------------------------- the landscape step

\* the pipeline variables while no pipeline runs
NoPipelineRun ==
    /\ variant = "enhanced"
    /\ width = 400
    /\ height = 300
    /\ loadable = TRUE
    /\ contours = <<>>
    /\ i = 1
    /\ rooms = <<>>
    /\ filtered_rooms = <<>>
    /\ result = None
    /\ arg_area = 0
    /\ arg_aspect_ratio = <<0, 1>>
    /\ arg_total_area = 1
    /\ room_type = NoType
    /\ located = 0

\* the three preprocessing scripts, by their path under server/
Scripts ==
    {"scripts/processFloorplans.py",
     "src/scripts/preprocessFloorplans.py",
     "src/scripts/processFloorplans.py"}

\* a numpy image: image.shape[:2] is (h, w), px[r][c] the pixel in row r and
\* column c, rows and columns counted from 1
Img(h, w, px) == [shape |-> <<h, w>>, px |-> px]

\* the images of h rows and w columns with pixels black or white
ImagesOfShape(h, w) == {Img(h, w, px) : px \in [1 .. h -> [1 .. w -> {0, 255}]]}

\* the images cv2.imread may return: every shape of 1 to 3 rows and columns
LoadedImages == UNION {ImagesOfShape(h, w) : h \in 1 .. 3, w \in 1 .. 3}

\* cv2.rotate(image, cv2.ROTATE_90_CLOCKWISE): w rows and h columns, the left
\* column of the source read bottom-up becoming the top row
rotate_90_clockwise(im) ==
    LET h == im.shape[1]
        w == im.shape[2]
    IN Img(w, h, [r \in 1 .. w |-> [c \in 1 .. h |-> im.px[h + 1 - c][r]]])

\* server/scripts/processFloorplans.py ensure_landscape
ensure_landscape(im) ==
    IF im.shape[1] > im.shape[2] THEN rotate_90_clockwise(im) ELSE im

\* faulty variant: h >= w, a square image is rotated too
ensure_landscape_orientation_ge(im) ==
    IF im.shape[1] >= im.shape[2] THEN rotate_90_clockwise(im) ELSE im

\* server/src/scripts/preprocessFloorplans.py ensure_landscape_orientation
ensure_landscape_orientation(im) ==
    IF im.shape[1] > im.shape[2] THEN rotate_90_clockwise(im) ELSE im

\* server/src/scripts/processFloorplans.py ensure_landscape
src_ensure_landscape(im) ==
    IF im.shape[1] > im.shape[2] THEN rotate_90_clockwise(im) ELSE im

\* the landscape step of script s
LandscapeStep(s, im) ==
    CASE s = "scripts/processFloorplans.py" -> ensure_landscape(im)
      [] s = "src/scripts/preprocessFloorplans.py" -> ensure_landscape_orientation(im)
      [] s = "src/scripts/processFloorplans.py" -> src_ensure_landscape(im)

InitLandscape ==
    /\ NoPipelineRun
    /\ pc = "landscape"
    /\ NoLocatorCall
    /\ NoBatch
    /\ NoFloorName
    /\ script \in Scripts
    /\ loaded_image \in LoadedImages
    /\ image = loaded_image
    /\ landscape_calls = 0

\* image = ensure_landscape(image), once more on the image it returned
EnsureLandscape ==
    /\ pc = "landscape"
    /\ landscape_calls < MaxPasses
    /\ image' = LandscapeStep(script, image)
    /\ landscape_calls' = landscape_calls + 1
    /\ UNCHANGED <<variant, width, height, loadable, contours, pc, i, rooms,
                   filtered_rooms, result, arg_area, arg_aspect_ratio,
                   arg_total_area, room_type, located, locator_vars, batch_vars,
                   script, loaded_image, floor_vars>>

\* the landscape step of one preprocessing script, applied MaxPasses times
SpecLandscape == InitLandscape /\ [][EnsureLandscape]_vars

\* ---------------------------------------------------------------- the floor type

\* The stem of an image file name is held as the sequence of its words.  A
\* word is a floor name in some spelling or a word that holds no floor name,
\* and no floor name arises across the border of two words, so that a
\* substring search for a floor name is a search among the words.
FileWords ==
    {"ground", "mezzanine", "first", "second", "third", "fourth", "fifth",
     "Ground", "FIRST", "floor", "plan"}

\* str.lower() on a word
lower(word) ==
    CASE word = "Ground" -> "ground"
      [] word = "FIRST" -> "first"
      [] OTHER -> word

\* floor_name.lower()
lower_name(name) == [k \in 1 .. Len(name) |-> lower(name[k])]

\* floor in floor_name.lower()
Contains(name, floor) == \E k \in 1 .. Len(name) : name[k] = floor

\* enhancedRoomDetection.py: the list the for loop walks
enhanced_floors == <<"ground", "mezzanine", "second", "third", "fourth", "fifth">>

\* roomDetection.py: the alternatives of the regular expression
seed_floors == {"ground", "mezzanine", "first", "second", "third", "fourth", "fifth"}

\* enhancedRoomDetection.py: the first floor of the list found in the name
enhanced_floor_type(name) ==
    LET found == {k \in 1 .. Len(enhanced_floors) :
                     Contains(lower_name(name), enhanced_floors[k])}
    IN IF found = {} THEN "unknown"
       ELSE enhanced_floors[CHOOSE k \in found : \A m \in found : k <= m]

\* roomDetection.py: re.search returns the leftmost match in the name
seed_floor_type(name) ==
    LET found == {k \in 1 .. Len(name) : lower(name[k]) \in seed_floors}
    IN IF found = {} THEN "unknown"
       ELSE lower(name[CHOOSE k \in found : \A m \in found : k <= m])

\* the stems of the image files handed to the pipeline
FloorNames == SeqsUpTo(FileWords, MaxWords) \ {<<>>}

InitFloor ==
    /\ variant \in Variants
    /\ width = 400
    /\ height = 300
    /\ loadable = TRUE
    /\ contours = <<>>
    /\ pc = "floor"
    /\ i = 1
    /\ rooms = <<>>
    /\ filtered_rooms = <<>>
    /\ result = None
    /\ arg_area = 0
    /\ arg_aspect_ratio = <<0, 1>>
    /\ arg_total_area = 1
    /\ room_type = NoType
    /\ located = 0
    /\ NoLocatorCall
    /\ NoBatch
    /\ NoLandscape
    /\ floor_name \in FloorNames
    /\ floor_type = NoType

\* the head of process_floor_plan / process_floorplan, up to the load
InferFloorType ==
    /\ pc = "floor"
    /\ floor_type' = IF variant = "enhanced" THEN enhanced_floor_type(floor_name)
                     ELSE seed_floor_type(floor_name)
    /\ pc' = "start"
    /\ UNCHANGED <<variant, width, height, loadable, contours, i, rooms,
                   filtered_rooms, result, arg_area, arg_aspect_ratio,
                   arg_total_area, room_type, located, locator_vars, batch_vars,
                   landscape_vars, floor_name>>

\* the floor type inference of either script on one file name
SpecFloor == InitFloor /\ [][InferFloorType]_vars

\* ---------------------------------------------------------------- claims

\* the rooms the resolver kept, as references into rooms
Kept == {filtered_rooms[k] : k \in 1..Len(filtered_rooms)}

\* intersection area of the bounding boxes of two rooms, whole pixels
Intersection(a, b) ==
    LET dx == Min(a.x + a.width, b.x + b.width) - Max(a.x, b.x)
        dy == Min(a.y + a.height, b.y + b.height) - Max(a.y, b.y)
    IN (IF dx > 0 THEN dx ELSE 0) * (IF dy > 0 THEN dy ELSE 0)

\* the configured overlap fraction of a variant, in tenths
Threshold(v) == IF v = "enhanced" THEN 6 ELSE 7

\* the intersection of a and b exceeds threshold x min(area), areas in half pixels
Exceeds(a, b, v) == 10 * 2 * Intersection(a, b) > Threshold(v) * Min(a.area, b.area)

\* the intersection of a and b is at least threshold x min(area)
Reaches(a, b, v) == 10 * 2 * Intersection(a, b) >= Threshold(v) * Min(a.area, b.area)

\* C1: after the Overlap Resolver has run, every two distinct rooms of the
\* returned list have a bounding-box intersection of at most threshold x the
\* smaller of their areas (0.6 in remove_overlapping_rooms, 0.7 in the loop
\* of process_floorplan).
C1_OverlapInvariant ==
    pc = "save" =>
        \A a, b \in 1..Len(filtered_rooms) :
            a # b => ~Exceeds(rooms[filtered_rooms[a]], rooms[filtered_rooms[b]], variant)

\* C1 witness: the enhanced resolver dropped a room and kept two rooms whose
\* boxes intersect, within the threshold.
C1_Witness ==
    /\ pc = "save"
    /\ variant = "enhanced"
    /\ Len(rooms) = 3
    /\ Len(filtered_rooms) = 2
    /\ Intersection(rooms[filtered_rooms[1]], rooms[filtered_rooms[2]]) > 0

\* C2: a room is discarded only if a kept room of at least its area exceeds
\* the threshold with it; a room that exceeds the threshold with no kept room
\* (only, if at all, with discarded ones) is kept.
C2_DiscardOnlyForKeptLarger ==
    pc = "save" =>
        \A r \in 1..Len(rooms) :
            /\ r \notin Kept =>
                   \E k \in Kept : /\ rooms[k].area >= rooms[r].area
                                   /\ Exceeds(rooms[r], rooms[k], variant)
            /\ (\A k \in Kept \ {r} : ~Exceeds(rooms[r], rooms[k], variant)) => r \in Kept

\* C3: two rooms of different area whose boxes intersect in 80% of the smaller
\* area: the resolver returns exactly the larger one, in both variants.
C3_EightyPercentKeepsLarger ==
    (/\ pc = "save"
     /\ Len(rooms) = 2
     /\ rooms[1].area # rooms[2].area
     /\ 10 * 2 * Intersection(rooms[1], rooms[2])
            = 8 * Min(rooms[1].area, rooms[2].area))
    => filtered_rooms = <<IF rooms[1].area > rooms[2].area THEN 1 ELSE 2>>

\* C3 witness: the seed variant resolved such a pair, the larger room second.
C3_Witness ==
    /\ pc = "save"
    /\ variant = "seed"
    /\ Len(rooms) = 2
    /\ rooms[1].area < rooms[2].area
    /\ 10 * 2 * Intersection(rooms[1], rooms[2]) = 8 * rooms[1].area
    /\ filtered_rooms = <<2>>

\* two rooms with the same bounding box
SameBox(a, b) ==
    a.x = b.x /\ a.y = b.y /\ a.width = b.width /\ a.height = b.height

\* two candidates with the same bounding box and the same area, the area not
\* larger than the bounding-box area
Duplicates(a, b) ==
    SameBox(a, b) /\ a.area = b.area /\ a.area <= 2 * a.width * a.height

\* the kept rooms that have the bounding box and the area of room p
KeptLike(p) == {k \in Kept : Duplicates(rooms[k], rooms[p])}

UpperTenths(v) == IF v = "enhanced" THEN 5 ELSE 6

\* C5: every room of the emitted record has an area field with
\* 0.003 x total_area <= area <= upper x total_area (upper 0.5 enhanced, 0.6
\* seed), total_area = width x height.
C5_EmittedAreaInBand ==
    pc = "done" =>
        \A k \in 1..Len(result.rooms) :
            /\ 1000 * result.rooms[k].area >= 2 * 3 * (width * height)
            /\ 10 * result.rooms[k].area <= 2 * UpperTenths(variant) * (width * height)

\* C6: every emitted room has aspect_ratio = width / height of its bounding
\* box, strictly inside (0.2, 5.0) in the enhanced variant and (0.1, 10) in
\* the seed variant; a contour whose bounding box has height 0 yields no room.
C6_EmittedAspectInBand ==
    pc = "done" =>
        /\ \A k \in 1..Len(result.rooms) :
               LET r == result.rooms[k] IN
               /\ r.height > 0
               /\ r.aspect_ratio[2] > 0
               /\ r.aspect_ratio[1] * r.height = r.width * r.aspect_ratio[2]
               /\ IF variant = "enhanced"
                  THEN 2 * r.height < 10 * r.width /\ r.width < 5 * r.height
                  ELSE r.height < 10 * r.width /\ r.width < 10 * r.height
        /\ \A c \in 1..Len(contours) :
               (contours[c] # None /\ contours[c].h = 0)
                   => \A k \in 1..Len(rooms) : rooms[k].contour # c

\* C6 witness: a run over a zero-height contour and a contour that became an
\* emitted room.
C6_Witness ==
    /\ pc = "done"
    /\ variant = "seed"
    /\ Len(contours) = 2
    /\ contours[1] # None
    /\ contours[1].h = 0
    /\ Len(result.rooms) = 1
    /\ result.rooms[1].width = 40
    /\ result.rooms[1].height = 200

\* the single contour of the end-to-end scenario: box 200 x 150, area 0.25 x 400 x 300
ScenarioContour == Contour(100, 75, 200, 150, 60000)

\* C8: enhanced pipeline, 400 x 300 image, the only contour with a 200 x 150
\* box and area 0.25 x total_area: it passes both filters, is classified
\* "office", survives overlap resolution, and the run emits exactly one room
\* with processingComplete = true.
C8_EndToEndOffice ==
    (/\ variant = "enhanced"
     /\ width = 400
     /\ height = 300
     /\ contours = <<ScenarioContour>>)
    => /\ pc # "failed"
       /\ pc \in {"classify", "dedup", "save", "done"} =>
              /\ Len(rooms) = 1
              /\ rooms[1].width = 200
              /\ rooms[1].height = 150
       /\ pc \in {"dedup", "save", "done"} => rooms[1].type = "office"
       /\ pc \in {"save", "done"} => filtered_rooms = <<1>>
       /\ pc = "done" =>
              /\ Len(result.rooms) = 1
              /\ result.rooms[1].type = "office"
              /\ result.rooms[1].width = 200
              /\ result.rooms[1].height = 150
              /\ result.processingComplete = TRUE

\* C8 witness: the scenario run has written its record.
C8_Witness ==
    /\ variant = "enhanced"
    /\ width = 400
    /\ height = 300
    /\ contours = <<ScenarioContour>>
    /\ pc = "done"
    /\ Len(result.rooms) = 1

\* the band the classifier of a variant puts (area, total_area) in
BandOf(v, area, total_area) ==
    IF v = "enhanced" THEN enhanced_area_band(area, total_area)
    ELSE seed_area_band(area, total_area)

\* the labels the medium band (relative area in (0.05, 0.15]) can yield
MediumLabels(v) ==
    IF v = "enhanced" THEN {"conference", "hallway", "classroom"}
    ELSE {"office", "hallway", "laboratory"}

\* C7: classify_room_type is total: for every argument triple with
\* total_area > 0 it returns one label of its variant; and a room of relative
\* area exactly 0.15 is classified by the medium band alone, never by the
\* large band.
C7_TotalAndBoundary ==
    pc = "returned" =>
        /\ room_type \in (IF variant = "enhanced" THEN EnhancedLabels ELSE SeedLabels)
        /\ 100 * arg_area = 2 * 15 * arg_total_area =>
               /\ BandOf(variant, arg_area, arg_total_area) = "medium"
               /\ room_type \in MediumLabels(variant)
               /\ enhanced_is_square(arg_aspect_ratio) /\ variant = "enhanced"
                      => room_type = "conference"
               /\ seed_is_square(arg_aspect_ratio) /\ variant = "seed"
                      => room_type = "office"

\* C7 witness: a near-square room of relative area exactly 0.15 was classified
\* by the enhanced script.
C7_Witness ==
    /\ pc = "returned"
    /\ variant = "enhanced"
    /\ 100 * arg_area = 2 * 15 * arg_total_area
    /\ arg_aspect_ratio = <<20, 20>>
    /\ room_type = "conference"

\* relative area > 0.25 and aspect ratio > 3.0
VeryLargeElongated ==
    /\ 100 * arg_area > 2 * 25 * arg_total_area
    /\ arg_aspect_ratio[1] > 3 * arg_aspect_ratio[2]

\* C9 as stated: in both variants a room of relative area > 0.25 and aspect
\* ratio > 3.0 is classified "hallway".
C9_VeryLargeElongatedIsHallway ==
    (pc = "returned" /\ VeryLargeElongated) => room_type = "hallway"

\* C9 amended: such a room is classified "hallway" by the seed-anchored
\* variant and "classroom" by the wall-reconstruction variant.
C9_HallwayInSeedOnly ==
    (pc = "returned" /\ VeryLargeElongated) =>
        room_type = (IF variant = "seed" THEN "hallway" ELSE "classroom")

\* C9 witness: the seed script classified such a room.
C9_Witness ==
    /\ pc = "returned"
    /\ variant = "seed"
    /\ VeryLargeElongated
    /\ room_type = "hallway"

\* 0.75 < aspect ratio < 1.3
NearSquare ==
    /\ 75 * arg_aspect_ratio[2] < 100 * arg_aspect_ratio[1]
    /\ 100 * arg_aspect_ratio[1] < 130 * arg_aspect_ratio[2]

\* lo/100 < relative area <= hi/100
RelAreaWithin(lo, hi) ==
    /\ 100 * arg_area > 2 * lo * arg_total_area
    /\ 100 * arg_area <= 2 * hi * arg_total_area

\* C10 as stated: in both variants a room of relative area in (0.01, 0.05]
\* and aspect ratio strictly between 0.75 and 1.3 is classified "storage".
C10_SmallSquareIsStorage ==
    (pc = "returned" /\ RelAreaWithin(1, 5) /\ NearSquare) => room_type = "storage"

\* C10 amended: such a room is classified "storage" by the wall-reconstruction
\* variant; by the seed-anchored variant it is classified "storage" when its
\* relative area is in (0.02, 0.05] and "utility" when it is in (0.01, 0.02].
C10_StorageAboveVariantBound ==
    (pc = "returned" /\ NearSquare) =>
        /\ (variant = "enhanced" /\ RelAreaWithin(1, 5)) => room_type = "storage"
        /\ (variant = "seed" /\ RelAreaWithin(2, 5)) => room_type = "storage"
        /\ (variant = "seed" /\ RelAreaWithin(1, 2)) => room_type = "utility"

\* C10 witness: the seed script classified a near-square room of relative
\* area 0.02 as "utility".
C10_Witness ==
    /\ pc = "returned"
    /\ variant = "seed"
    /\ NearSquare
    /\ 100 * arg_area = 2 * 2 * arg_total_area
    /\ room_type = "utility"

\* relative area <= 0.01
RelAreaTiny == 100 * arg_area <= 2 * 1 * arg_total_area

\* aspect ratio > 3.0
Elongated == arg_aspect_ratio[1] > 3 * arg_aspect_ratio[2]

\* 0.7 < aspect ratio < 1.3
SeedNearSquare ==
    /\ 70 * arg_aspect_ratio[2] < 100 * arg_aspect_ratio[1]
    /\ 100 * arg_aspect_ratio[1] < 130 * arg_aspect_ratio[2]

\* C11 as stated: in both variants a room of relative area <= 0.01 is
\* classified "utility" when its aspect ratio is strictly between 0.75 and
\* 1.3, "corridor" when it is greater than 3.0, and "storage" otherwise.
C11_TinyRoomLabels ==
    (pc = "returned" /\ RelAreaTiny) =>
        room_type = (IF NearSquare THEN "utility"
                     ELSE IF Elongated THEN "corridor"
                     ELSE "storage")

\* C11 amended: for such a room the seed-anchored variant returns "utility"
\* when the aspect ratio is strictly between 0.7 and 1.3, "corridor" when it
\* is greater than 3.0 and "storage" otherwise; the wall-reconstruction variant
\* returns "hallway" when the aspect ratio is greater than 3.0 and "utility"
\* otherwise.
C11_TinyRoomLabelsPerVariant ==
    (pc = "returned" /\ RelAreaTiny) =>
        room_type = (IF variant = "seed"
                     THEN (IF SeedNearSquare THEN "utility"
                           ELSE IF Elongated THEN "corridor"
                           ELSE "storage")
                     ELSE (IF Elongated THEN "hallway" ELSE "utility"))

\* C11 witness: the wall-reconstruction script classified an elongated room of
\* relative area 0.01.
C11_Witness ==
    /\ pc = "returned"
    /\ variant = "enhanced"
    /\ 100 * arg_area = 2 * 1 * arg_total_area
    /\ Elongated
    /\ room_type = "hallway"

\* the Region Locator has run and yielded nothing
LocatedNothing == pc \notin {"start", "loaded", "failed"} /\ contours = <<>>

\* C12: when the Region Locator yields nothing for an image, the run goes
\* through the remaining stages without raising, ends in Completed, and emits a
\* record whose rooms list is empty and whose processingComplete is true.
C12_NothingLocatedCompletes ==
    LocatedNothing =>
        /\ rooms = <<>>
        /\ filtered_rooms = <<>>
        /\ ~ENABLED (Next /\ pc' = "failed")
        /\ pc # "done" => ENABLED Next
        /\ pc = "done" =>
               /\ result # None
               /\ result.rooms = <<>>
               /\ result.processingComplete = TRUE

\* C12 witness: a run of the seed script without text regions has returned.
C12_Witness ==
    /\ variant = "seed"
    /\ contours = <<>>
    /\ pc = "done"
    /\ result # None
    /\ result.rooms = <<>>

\* every stage up to the Overlap Resolver has run and no candidate is left
ZeroCandidates ==
    pc \in {"save", "json", "visualize", "done"} /\ filtered_rooms = <<>>

\* C13 as stated: a run that has zero candidates after all stages ends in
\* Failed rather than in Completed.
C13_ZeroCandidatesFails == ZeroCandidates => pc # "done"

\* C13 amended: a run that has zero candidates after all stages never goes to
\* Failed: it goes on to Completed and the record it emits has an empty rooms
\* list.
C13_ZeroCandidatesCompletes ==
    ZeroCandidates =>
        /\ ~ENABLED (Next /\ pc' = "failed")
        /\ pc # "done" => ENABLED (Next /\ pc' # "failed")
        /\ pc = "done" => result # None /\ result.rooms = <<>>

\* C13 witness: the enhanced script found contours, kept none of them, and
\* returned.
C13_Witness ==
    /\ variant = "enhanced"
    /\ Len(contours) > 0
    /\ rooms = <<>>
    /\ filtered_rooms = <<>>
    /\ pc = "done"
    /\ result # None

\* get_room_contour has chosen its seed
SeedChosen == pc \in {"flood", "mask", "returned"} /\ seed_point # None

\* the center of the hint's bounding box
HintCenter ==
    <<text_region.x + text_region.w \div 2, text_region.y + text_region.h \div 2>>

\* the four probes in the stated order: above, below, left, right
Probe(k) ==
    CASE k = 1 -> <<HintCenter[1], HintCenter[2] - text_region.h>>
      [] k = 2 -> <<HintCenter[1], HintCenter[2] + text_region.h>>
      [] k = 3 -> <<HintCenter[1] - text_region.w, HintCenter[2]>>
      [] k = 4 -> <<HintCenter[1] + text_region.w, HintCenter[2]>>

\* inside the image bounds
InBounds(pt) == pt[1] \in 0 .. width - 1 /\ pt[2] \in 0 .. height - 1

\* inside the image bounds and on a light pixel
Usable(pt) == InBounds(pt) /\ binary[pt] = 255

\* C14: when none of the four probes is both inside the image bounds and on
\* a light pixel, the seed of the flood fill is the hint's center
\* (x + w // 2, y + h // 2), wall pixel or not.
C14_FallbackToCenter ==
    (SeedChosen /\ \A k \in 1 .. 4 : ~Usable(Probe(k))) => seed_point = HintCenter

\* C14 witness: no probe was usable and the seed is the center, a wall pixel.
C14_Witness ==
    /\ SeedChosen
    /\ \A k \in 1 .. 4 : ~Usable(Probe(k))
    /\ \E k \in 1 .. 4 : InBounds(Probe(k))
    /\ seed_point = HintCenter
    /\ binary[HintCenter] = 0

\* C15: the seed is the first of the probes above, below, left, right that
\* is inside the image bounds and on a light pixel; a later probe is chosen
\* only when every earlier one is out of bounds or on a wall pixel; a seed
\* chosen from the probes is inside the bounds and light.
C15_FirstUsableProbe ==
    SeedChosen =>
        \A k \in 1 .. 4 :
            (Usable(Probe(k)) /\ \A j \in 1 .. k - 1 : ~Usable(Probe(j)))
                => /\ seed_point = Probe(k)
                   /\ InBounds(seed_point)
                   /\ binary[seed_point] = 255

\* C15 witness: the probe on the right was chosen, the one above not being
\* usable, the one below on a wall pixel and the one on the left out of bounds.
C15_Witness ==
    /\ SeedChosen
    /\ seed_point = Probe(4)
    /\ seed_point # HintCenter
    /\ InBounds(Probe(2)) /\ binary[Probe(2)] = 0
    /\ ~InBounds(Probe(3))
    /\ ~Usable(Probe(1))

\* the pixels the flood fill painted
Filled == {pt \in Pixels(width, height) : flood_image[pt] = 128}

\* C16: the region the flood fill paints is bounded by wall pixels: it holds
\* the seed and no wall (dark) pixel, whatever seed the selection produced.
C16_FillHoldsNoWall ==
    pc \in {"mask", "returned"} =>
        /\ seed_point \in Filled
        /\ \A pt \in Filled : binary[pt] = 255

\* the hints handled so far whose contour passed the filters
KeptHints ==
    {k \in 1 .. located : contours[k] # None /\ seed_keep(contours[k], width * height)}

\* the position among the kept hints of hint k
Rank(k) == Cardinality({j \in KeptHints : j <= k})

\* C17: when get_room_contour yields no contour for a hint, process_floorplan
\* adds no room for it, raises no error and goes on with the remaining hints;
\* the rooms of the other hints are what they are without the failing hint:
\* each is built from its own contour alone and numbered by the rooms before it.
C17_NoContourIsSkipped ==
    (variant = "seed" /\ pc \notin {"start", "loaded", "failed"}) =>
        /\ \A k \in 1 .. located :
               contours[k] = None => \A n \in 1 .. Len(rooms) : rooms[n].contour # k
        /\ Len(rooms) = Cardinality(KeptHints)
        /\ \A k \in KeptHints :
               LET r == rooms[Rank(k)]
                   c == contours[k]
               IN /\ r.contour = k
                  /\ r.name = <<"Room", Rank(k)>>
                  /\ <<r.x, r.y, r.width, r.height>> = <<c.x, c.y, c.w, c.h>>
                  /\ r.area = IntArea(c.area)
                  /\ r.type = classify_room_type(c.area, AspectRatio(c.w, c.h),
                                                 width * height)
        /\ (pc = "regions" /\ contours[i] = None) =>
               /\ ENABLED ProcessRegion
               /\ ~ENABLED (Next /\ pc' = "failed")
        /\ pc # "regions" => located = Len(contours)

\* C17 witness: the first hint had no contour, the second became "Room 1".
C17_Witness ==
    /\ variant = "seed"
    /\ pc = "dedup"
    /\ Len(contours) = 2
    /\ contours[1] = None
    /\ Len(rooms) = 1
    /\ rooms[1].contour = 2
    /\ rooms[1].name = <<"Room", 1>>

\* the files of the listing the running script selects, in list order
SelectedFiles ==
    IF variant = "enhanced" THEN SelectSeq(source_dir.entries, enhanced_selects)
    ELSE SelectSeq(source_dir.entries, seed_selects)

\* the files the pipeline has been run on, in the order of the runs
FilesRun == [k \in 1 .. Len(outcomes) |-> outcomes[k].file]

\* C18: in batch processing every selected file is run through the pipeline
\* exactly once, in list order, whether earlier files ended in Completed or in
\* Failed: the files run so far are always the first selected files, the loop
\* can always go on until it has returned, and it returns having run them all.
C18_EverySelectedFileOnce ==
    /\ Len(FilesRun) <= Len(SelectedFiles)
    /\ FilesRun = SubSeq(SelectedFiles, 1, Len(FilesRun))
    /\ pc # "returned" => ENABLED NextBatch
    /\ pc = "returned" => FilesRun = SelectedFiles

\* C18 witness: a batch has returned after a run that failed and a later run
\* that completed.
C18_Witness ==
    /\ pc = "returned"
    /\ Len(outcomes) = 2
    /\ outcomes[1].outcome = "Failed"
    /\ outcomes[2].outcome = "Completed"

\* C19: a record (processingComplete = true) is emitted only by a run in
\* which every stage succeeded and that ends in Completed: a run that ends in
\* Failed, at the load stage or at any later one, has emitted no record.
C19_NoRecordFromFailedRun == pc = "failed" => result = None

\* the candidates that have their type
Classified == {n \in 1 .. Len(rooms) : "type" \in DOMAIN rooms[n]}

\* deduplication is about to start, or has run
AtOrAfterDedup == pc \in {"dedup", "save", "json", "visualize", "done"}

\* C20 as stated: the stages run strictly one after the other, each for all
\* inputs: no candidate is classified before region location has finished for
\* every contour or hint, and deduplication starts only after every candidate
\* is classified.
C20_StagesStrictlyOrdered ==
    /\ Classified # {} => located = Len(contours)
    /\ AtOrAfterDedup => Classified = 1 .. Len(rooms)
    /\ filtered_rooms # <<>> => pc \in {"save", "json", "visualize", "done"}

\* C20 amended: the wall-reconstruction variant runs region location,
\* candidate building, classification and deduplication strictly in that
\* order, each for all inputs; the seed-anchored variant locates, builds and
\* classifies hint by hint, a candidate being classified once its own hint is
\* located; in both, deduplication starts only after region location has
\* finished for every contour or hint and every candidate is classified.
C20_StagesOrderedPerVariant ==
    /\ variant = "enhanced" =>
           /\ rooms # <<>> => located = Len(contours) /\ pc \notin {"loaded", "polygons"}
           /\ Classified # {} => AtOrAfterDedup
    /\ variant = "seed" =>
           \A n \in 1 .. Len(rooms) : n \in Classified /\ rooms[n].contour <= located
    /\ AtOrAfterDedup => located = Len(contours) /\ Classified = 1 .. Len(rooms)
    /\ filtered_rooms # <<>> => pc \in {"save", "json", "visualize", "done"}

\* C20 witness: the seed script has classified the room of its first hint
\* while the second hint is still to be located.
C20_Witness ==
    /\ variant = "seed"
    /\ pc = "regions"
    /\ Len(contours) = 2
    /\ located = 1
    /\ Classified = {1}

\* the keys of a room in its external form
ExternalKeys ==
    {"id", "name", "type", "x", "y", "width", "height", "area", "aspect_ratio",
     "confidence"}

\* C21: every room of the emitted record has exactly the keys id, name, type,
\* x, y, width, height, area, aspect_ratio, confidence, each with the value of
\* the internal room, and no contour key; building the record leaves the
\* internal rooms as they were, so each returned room still has its contour.
C21_RecordStripsContourOnly ==
    /\ [](pc = "done" =>
            /\ Len(result.rooms) = Len(filtered_rooms)
            /\ \A k \in 1 .. Len(result.rooms) :
                   LET room == rooms[filtered_rooms[k]] IN
                   /\ DOMAIN result.rooms[k] = ExternalKeys
                   /\ \A key \in ExternalKeys : result.rooms[k][key] = room[key]
                   /\ DOMAIN room = ExternalKeys \cup {"contour"})
    /\ [][result' # result => rooms' = rooms /\ filtered_rooms' = filtered_rooms]_vars

\* C21 witness: the seed script has returned with two rooms in its record.
C21_Witness ==
    /\ variant = "seed"
    /\ pc = "done"
    /\ Len(result.rooms) = 2
    /\ "contour" \in DOMAIN rooms[filtered_rooms[2]]

\* C22: no two rooms of one emitted record have the same id, each id being
\* "room-" and the first 8 hexadecimal characters of a freshly drawn uuid4.
C22_IdsDistinct ==
    pc = "done" =>
        \A a, b \in 1 .. Len(result.rooms) :
            /\ result.rooms[a].id[1] = "room-"
            /\ a # b => result.rooms[a].id # result.rooms[b].id

\* C23: the list returned by the Overlap Resolver is ordered by non-increasing
\* area: each room of the result has an area greater than or equal to the area
\* of every room after it.
C23_ResultByNonIncreasingArea ==
    pc = "save" =>
        \A a, b \in 1 .. Len(filtered_rooms) :
            a < b => rooms[filtered_rooms[a]].area >= rooms[filtered_rooms[b]].area

\* C23 witness: three rooms came in with the smallest first and the largest
\* last, and the resolver returned more than one of them.
C23_Witness ==
    /\ pc = "save"
    /\ Len(rooms) = 3
    /\ rooms[1].area < rooms[2].area
    /\ rooms[2].area < rooms[3].area
    /\ Len(filtered_rooms) >= 2
    /\ filtered_rooms[1] = 3

\* the list of rooms the resolver of variant v returns for the list rs
Resolved(v, rs) ==
    LET refs == IF v = "enhanced" THEN remove_overlapping_rooms(rs)
                ELSE seed_remove_overlapping(rs)
    IN [k \in 1 .. Len(refs) |-> rs[refs[k]]]

\* the list the resolver has returned in this state
ResolverOutput == [k \in 1 .. Len(filtered_rooms) |-> rooms[filtered_rooms[k]]]

\* C26: the Overlap Resolver is idempotent: applied to its own output it
\* returns the same list, the same rooms in the same order.
C26_ResolverIdempotent ==
    pc = "save" =>
        /\ ResolverOutput = Resolved(variant, rooms)
        /\ Resolved(variant, ResolverOutput) = ResolverOutput

\* C26 witness: the resolver dropped one of three rooms and returned two rooms
\* of equal area that are different rooms.
C26_Witness ==
    /\ pc = "save"
    /\ Len(rooms) = 3
    /\ Len(filtered_rooms) = 2
    /\ ResolverOutput[1].area = ResolverOutput[2].area
    /\ ResolverOutput[1] # ResolverOutput[2]

\* the largest area among the rooms handed to the resolver
MaxInputArea == CHOOSE a \in {rooms[k].area : k \in 1 .. Len(rooms)} :
                    \A k \in 1 .. Len(rooms) : rooms[k].area <= a

\* C27: the Overlap Resolver only selects: every room of its result is one of
\* the input rooms, taken once and as it is; the input list is neither
\* reordered nor modified; an empty input gives an empty result; a non-empty
\* input gives a non-empty result that holds a room of maximal area.
C27_ResolverOnlySelects ==
    /\ [](pc = "save" =>
            /\ \A k \in 1 .. Len(filtered_rooms) : filtered_rooms[k] \in 1 .. Len(rooms)
            /\ \A a, b \in 1 .. Len(filtered_rooms) :
                   a # b => filtered_rooms[a] # filtered_rooms[b]
            /\ rooms = <<>> => filtered_rooms = <<>>
            /\ rooms # <<>> =>
                   /\ filtered_rooms # <<>>
                   /\ \E k \in 1 .. Len(filtered_rooms) :
                          rooms[filtered_rooms[k]].area = MaxInputArea)
    /\ [][pc = "dedup" /\ pc' = "save" => rooms' = rooms]_vars

\* C27 witness: three rooms came in, the first not of maximal area, and the
\* resolver returned fewer than three.
C27_Witness ==
    /\ pc = "save"
    /\ Len(rooms) = 3
    /\ rooms[1].area < MaxInputArea
    /\ Len(filtered_rooms) < 3

\* the orders in which a list of n rooms can be handed over
Perms(n) == {p \in [1 .. n -> 1 .. n] : \A a, b \in 1 .. n : a # b => p[a] # p[b]}

\* the set of rooms in a list
RoomsOf(rs) == {rs[k] : k \in 1 .. Len(rs)}

\* every other order of the input gives the set of rooms this run returned
SameSetInEveryOrder ==
    \A p \in Perms(Len(rooms)) :
        RoomsOf(Resolved(variant, [k \in 1 .. Len(rooms) |-> rooms[p[k]]]))
            = RoomsOf(ResolverOutput)

\* two different rooms of equal area whose intersection reaches the threshold
TiedRivals ==
    \E a, b \in 1 .. Len(rooms) :
        /\ rooms[a] # rooms[b]
        /\ rooms[a].area = rooms[b].area
        /\ Reaches(rooms[a], rooms[b], variant)

QuarterTurn(a, b) ==
    LET h == a.shape[1]
        w == a.shape[2]
    IN /\ b.shape = <<w, h>>
       /\ \/ \A r \in 1 .. w : \A c \in 1 .. h : b.px[r][c] = a.px[h + 1 - c][r]
          \/ \A r \in 1 .. w : \A c \in 1 .. h : b.px[r][c] = a.px[c][w + 1 - r]

\* C24: the landscape step of every preprocessing script returns an image at
\* least as wide as high: an image with height > width comes back with its
\* dimensions swapped by one 90-degree rotation, an image with height <= width
\* comes back unchanged, and a second application changes nothing.
C24_LandscapeStep ==
    /\ []((pc = "landscape" /\ landscape_calls >= 1) =>
            /\ image.shape[2] >= image.shape[1]
            /\ loaded_image.shape[1] > loaded_image.shape[2] =>
                   QuarterTurn(loaded_image, image)
            /\ loaded_image.shape[1] <= loaded_image.shape[2] =>
                   image = loaded_image)
    /\ [][(landscape_calls >= 1 /\ landscape_calls' = landscape_calls + 1)
              => image' = image]_vars

\* C24 witness: a script has applied its step twice to an image of 3 rows and
\* 2 columns that is not of one colour, and holds one of 2 rows and 3 columns.
C24_Witness ==
    /\ pc = "landscape"
    /\ script = "src/scripts/preprocessFloorplans.py"
    /\ landscape_calls = 2
    /\ loaded_image.shape = <<3, 2>>
    /\ loaded_image.px[1][1] # loaded_image.px[3][1]
    /\ image.shape = <<2, 3>>

\* the floor tokens that occur in the lower-cased stem
TokensIn(name) == {lower(name[k]) : k \in 1 .. Len(name)} \cap seed_floors

\* C28: for the same source file name both variants attach the same floor
\* type: a single floor token that occurs in the lower-cased stem, or
\* "unknown" when the stem holds no floor token; also for stems with "first"
\* or with more than one floor token.
C28_SameFloorTypeInBothVariants ==
    pc = "start" =>
        /\ floor_type = enhanced_floor_type(floor_name)
        /\ floor_type = seed_floor_type(floor_name)
        /\ floor_type \in (IF TokensIn(floor_name) = {} THEN {"unknown"}
                           ELSE TokensIn(floor_name))

====
